---- MODULE Spec2Model ----
(***************************************************************************)
(* Consultation booking, status workflow and review gate of the            *)
(* medical-trip backend (Django REST Framework).                           *)
(*                                                                         *)
(* The state is the content of the relational store (consultations and     *)
(* reviews); doctors, availability windows, accounts and profiles are      *)
(* administered outside the booking flow and are fixed tables here.        *)
(* Every action is one HTTP request handled to completion: the view's      *)
(* object lookup, the serializer's validate() and its create()/update().   *)
(* Field-level validators of the framework (symptom length, stars range,   *)
(* status choices) run before validate(); requests are drawn from the      *)
(* payloads that pass them.                                                *)
(***************************************************************************)
EXTENDS Integers, FiniteSets, Sequences, TLC

----------------------------------------------------------------------------
(* Bounds *)

\* Number of consultation rows ever inserted (primary keys 1..MaxConsultations).
MaxConsultations == 2

----------------------------------------------------------------------------
(* Fixed tables: accounts, profiles, doctors, availability *)

\* django.contrib.auth User rows; request.user of an authenticated request.
Users == {"alice", "bob", "root"}

\* User.is_staff
IsStaff(u) == u = "root"

\* UserProfile rows: id -> owning account (OneToOne, related_name='profile').
\* bob has no profile.
UserProfile == [p \in {1, 2} |-> IF p = 1 THEN "alice" ELSE "root"]

\* An id that no UserProfile row has.
MissingProfileId == 3

\* The omitted value of an optional integer field (data.get(...) is None).
NoId == 0

\* ChinaDoctor rows: id -> is_available.
ChinaDoctor == [d \in {1, 2, 3} |-> d # 3]

\* An id that no ChinaDoctor row has.
MissingDoctorId == 4

\* Timestamps are (calendar date, time of day) in the canonical zone.
DateTime(d, t) == [date |-> d, time |-> t]

\* The omitted value of the optional scheduled_at field.
NoTime == DateTime(0, 0)

\* DoctorAvailability rows.
DoctorAvailability ==
    { [doctor |-> 1, date |-> 1, start_time |-> 1, end_time |-> 2],
      [doctor |-> 2, date |-> 1, start_time |-> 1, end_time |-> 2],
      [doctor |-> 2, date |-> 2, start_time |-> 0, end_time |-> 1] }

\* Consultation.STATUS_CHOICES
STATUS_CHOICES == {"pending", "confirmed", "completed", "cancelled"}

\* The omitted value of the optional status field.
NoStatus == "absent"

\* The omitted value of the optional notes field.
NoNotes == "absent"

----------------------------------------------------------------------------
(* State *)

VARIABLES
    consultations,  \* Consultation rows: id -> record
    reviews,        \* DoctorReview rows: consultation id -> number of rows
    nextId,         \* next primary key of Consultation
    last,           \* the request handled last and its response
    inflight        \* worker -> the request it has validated and not yet written

vars == <<consultations, reviews, nextId, last, inflight>>

\* A request as seen by the serializer: the acting account and the payload.
Request(op, actor, cid, doctor_id, user_profile_id, scheduled_at, status, notes) ==
    [op |-> op, actor |-> actor, cid |-> cid, doctor_id |-> doctor_id,
     user_profile_id |-> user_profile_id, scheduled_at |-> scheduled_at,
     status |-> status, notes |-> notes]

\* The request together with its outcome; `before` is the status the
\* consultation it names had when the request arrived (NoStatus when the
\* request names no existing consultation).
Response(req, before, result) ==
    [op |-> req.op, actor |-> req.actor, cid |-> req.cid,
     doctor_id |-> req.doctor_id, user_profile_id |-> req.user_profile_id,
     scheduled_at |-> req.scheduled_at, status |-> req.status,
     notes |-> req.notes, before |-> before, result |-> result,
     rows |-> {}]

\* The server handles requests in two workers at a time.
Handlers == {1, 2}

Other(h) == 3 - h

NoRequest == Request("none", "root", 0, NoId, NoId, NoTime, NoStatus, NoNotes)

\* A worker between requests. `raced` tells that the worker's request and
\* the other worker's were both validated before either was written; `cid`
\* is the row the worker wrote.
IdleHandler == [pc |-> "idle", req |-> NoRequest, raced |-> FALSE, cid |-> 0]

Init ==
    /\ consultations = [i \in {} |-> 0]
    /\ reviews = [i \in {} |-> 0]
    /\ nextId = 1
    /\ last = Response(NoRequest, NoStatus, "ok")
    /\ inflight = [h \in Handlers |-> IdleHandler]

----------------------------------------------------------------------------
(* ConsultationSerializer *)

\* Mutant of allowed: a completed consultation may be confirmed again.
allowed_reopen ==
    [s \in STATUS_CHOICES |->
        CASE s = "pending"   -> {"confirmed", "cancelled"}
          [] s = "confirmed" -> {"completed", "cancelled"}
          [] s = "completed" -> {"confirmed"}
          [] s = "cancelled" -> {}]

\* The transition table of validate(): current status -> allowed targets.
allowed ==
    [s \in STATUS_CHOICES |->
        CASE s = "pending"   -> {"confirmed", "cancelled"}
          [] s = "confirmed" -> {"completed", "cancelled"}
          [] s = "completed" -> {}
          [] s = "cancelled" -> {}]

\* Mutant of ValidateUpdate: the transition table is not consulted.
ValidateUpdate_no_table(req, instance) ==
    IF req.status # NoStatus /\ ~IsStaff(req.actor)
    THEN "Forbidden"
    ELSE "ok"

\* Mutant of ValidateUpdate: the transition table is consulted before the
\* actor's role.
ValidateUpdate_table_first(req, instance) ==
    IF req.status # NoStatus
    THEN IF req.status = instance.status
         THEN "ok"
         ELSE IF req.status \notin allowed[instance.status]
              THEN "IllegalTransition"
              ELSE IF ~IsStaff(req.actor) THEN "Forbidden" ELSE "ok"
    ELSE "ok"

\* Mutant of ValidateUpdate: no early return for target = current.
ValidateUpdate_no_same_status(req, instance) ==
    IF req.status # NoStatus
    THEN IF ~IsStaff(req.actor)
         THEN "Forbidden"
         ELSE IF req.status \notin allowed[instance.status]
              THEN "IllegalTransition"
              ELSE "ok"
    ELSE "ok"

\* Mutant of ValidateUpdate: a new scheduled_at is tested against the
\* doctor's availability windows, as on create.
ValidateUpdate_checks_window(req, instance) ==
    IF req.scheduled_at # NoTime
       /\ ~(\E w \in DoctorAvailability :
               /\ w.doctor = instance.doctor
               /\ w.date = req.scheduled_at.date
               /\ w.start_time <= req.scheduled_at.time
               /\ w.end_time > req.scheduled_at.time)
    THEN "OutsideAvailability"
    ELSE IF req.status # NoStatus
         THEN IF ~IsStaff(req.actor)
              THEN "Forbidden"
              ELSE IF req.status = instance.status
                   THEN "ok"
                   ELSE IF req.status \notin allowed[instance.status]
                        THEN "IllegalTransition"
                        ELSE "ok"
         ELSE "ok"

\* validate() on update (self.instance is not None): the status block.
\* "ok" stands for `return data`.
ValidateUpdate(req, instance) ==
    IF req.status # NoStatus
    THEN IF ~IsStaff(req.actor)
         THEN "Forbidden"
         ELSE IF req.status = instance.status
              THEN "ok"
              ELSE IF req.status \notin allowed[instance.status]
                   THEN "IllegalTransition"
                   ELSE "ok"
    ELSE "ok"

\* UserProfile.objects.get(user=request.user): the profile ids of an account.
ProfileOf(u) == {p \in DOMAIN UserProfile : UserProfile[p] = u}

\* Mutant of ForeignProfile: the profile's account is never compared.
ForeignProfile_never(actor, p) == FALSE

\* `not request.user.is_staff and user_profile.user != request.user`, the
\* ownership test of validate() (l.207) that create() repeats (l.251).
ForeignProfile(actor, p) == ~IsStaff(actor) /\ UserProfile[p] # actor

\* The profile step of validate() on create: an error, or "ok".
ResolveProfile(req) ==
    IF req.user_profile_id # NoId
    THEN IF req.user_profile_id \notin DOMAIN UserProfile
         THEN "ProfileNotFound"
         ELSE IF ForeignProfile(req.actor, req.user_profile_id)
              THEN "OwnershipMismatch"
              ELSE "ok"
    ELSE IF ProfileOf(req.actor) = {}
         THEN "NoProfileForActor"
         ELSE "ok"

\* The profile a create request is persisted with (create(), l.249-257).
ResolvedProfileId(req) ==
    IF req.user_profile_id # NoId
    THEN req.user_profile_id
    ELSE CHOOSE p \in ProfileOf(req.actor) : TRUE

\* Mutant of availability_exists: end_time__gte, the end is inclusive.
availability_exists_end_inclusive(doctor_id, scheduled_at) ==
    \E w \in DoctorAvailability :
        /\ w.doctor = doctor_id
        /\ w.date = scheduled_at.date
        /\ w.start_time <= scheduled_at.time
        /\ w.end_time >= scheduled_at.time

\* DoctorAvailability.objects.filter(doctor, date, start_time__lte, end_time__gt).exists()
availability_exists(doctor_id, scheduled_at) ==
    \E w \in DoctorAvailability :
        /\ w.doctor = doctor_id
        /\ w.date = scheduled_at.date
        /\ w.start_time <= scheduled_at.time
        /\ w.end_time > scheduled_at.time

\* Consultation.objects.filter(doctor, status='confirmed', scheduled_at).exists()
slot_taken(cons, doctor_id, scheduled_at) ==
    \E c \in DOMAIN cons :
        /\ cons[c].doctor = doctor_id
        /\ cons[c].status = "confirmed"
        /\ cons[c].scheduled_at = scheduled_at

\* The scheduling step of validate() on create.
ValidateSchedule(cons, req) ==
    IF req.scheduled_at # NoTime
    THEN IF ~availability_exists(req.doctor_id, req.scheduled_at)
         THEN "OutsideAvailability"
         ELSE IF slot_taken(cons, req.doctor_id, req.scheduled_at)
              THEN "SlotTaken"
              ELSE "ok"
    ELSE "ok"

\* Mutant of ValidateCreate: the profile is resolved before the doctor.
ValidateCreate_profile_first(cons, req) ==
    IF ResolveProfile(req) # "ok"
    THEN ResolveProfile(req)
    ELSE IF req.doctor_id \notin DOMAIN ChinaDoctor
         THEN "DoctorNotFound"
         ELSE IF ~ChinaDoctor[req.doctor_id]
              THEN "DoctorUnavailable"
              ELSE ValidateSchedule(cons, req)

\* validate() on create (self.instance is None): doctor, profile, schedule.
ValidateCreate(cons, req) ==
    IF req.doctor_id \notin DOMAIN ChinaDoctor
    THEN "DoctorNotFound"
    ELSE IF ~ChinaDoctor[req.doctor_id]
         THEN "DoctorUnavailable"
         ELSE IF ResolveProfile(req) # "ok"
              THEN ResolveProfile(req)
              ELSE ValidateSchedule(cons, req)

\* create() before the insert: validated_data carries user_profile_id
\* (validate() fills it in when the payload omits it), the profile is fetched
\* again and its ownership tested again.
CreateProfileCheck(req) ==
    IF ForeignProfile(req.actor, ResolvedProfileId(req))
    THEN "OwnershipMismatch"
    ELSE "ok"

\* create(): Consultation.objects.create(user_profile, doctor, **validated_data).
\* status, scheduled_at and notes are writable serializer fields; the model
\* defaults apply to the ones the payload leaves out.
NewConsultation(req) ==
    [user_profile |-> ResolvedProfileId(req),
     doctor |-> req.doctor_id,
     status |-> IF req.status # NoStatus THEN req.status ELSE "pending",
     scheduled_at |-> req.scheduled_at,
     notes |-> IF req.notes # NoNotes THEN req.notes ELSE ""]

\* Mutant of UpdatedConsultation: only the status is written.
UpdatedConsultation_status_only(instance, req) ==
    [instance EXCEPT !.status = IF req.status # NoStatus THEN req.status ELSE @]

\* update(): status is popped, every other validated field is set with
\* setattr (doctor_id and user_profile_id are the foreign-key columns), then
\* the status is set when one was supplied.
UpdatedConsultation(instance, req) ==
    [user_profile |-> IF req.user_profile_id # NoId THEN req.user_profile_id
                      ELSE instance.user_profile,
     doctor |-> IF req.doctor_id # NoId THEN req.doctor_id ELSE instance.doctor,
     status |-> IF req.status # NoStatus THEN req.status ELSE instance.status,
     scheduled_at |-> IF req.scheduled_at # NoTime THEN req.scheduled_at
                      ELSE instance.scheduled_at,
     notes |-> IF req.notes # NoNotes THEN req.notes ELSE instance.notes]

----------------------------------------------------------------------------
(* DoctorReviewSerializer *)

\* hasattr(consultation, 'review'): a DoctorReview row points at the consultation.
HasReview(revs, cid) == revs[cid] > 0

\* Mutant of ValidateReview: the existing review is not looked for.
ValidateReview_no_existing(cons, revs, req) ==
    IF cons[req.cid].status # "completed"
    THEN "NotCompleted"
    ELSE IF ~IsStaff(req.actor) /\ UserProfile[cons[req.cid].user_profile] # req.actor
         THEN "Forbidden"
         ELSE "ok"

\* Mutant of ValidateReview: ownership is checked before the status.
ValidateReview_owner_first(cons, revs, req) ==
    IF ~IsStaff(req.actor) /\ UserProfile[cons[req.cid].user_profile] # req.actor
    THEN "Forbidden"
    ELSE IF cons[req.cid].status # "completed"
         THEN "NotCompleted"
         ELSE IF HasReview(revs, req.cid)
              THEN "AlreadyReviewed"
              ELSE "ok"

\* Mutant of ValidateReview: the consultation's status is not looked at.
ValidateReview_no_status(cons, revs, req) ==
    IF HasReview(revs, req.cid)
    THEN "AlreadyReviewed"
    ELSE IF ~IsStaff(req.actor) /\ UserProfile[cons[req.cid].user_profile] # req.actor
         THEN "Forbidden"
         ELSE "ok"

\* Mutant of ValidateReview: the reviewer's account is not compared.
ValidateReview_no_owner(cons, revs, req) ==
    IF cons[req.cid].status # "completed"
    THEN "NotCompleted"
    ELSE IF HasReview(revs, req.cid)
         THEN "AlreadyReviewed"
         ELSE "ok"

\* validate(): status, existing review, ownership - in this order.
ValidateReview(cons, revs, req) ==
    IF cons[req.cid].status # "completed"
    THEN "NotCompleted"
    ELSE IF HasReview(revs, req.cid)
         THEN "AlreadyReviewed"
         ELSE IF ~IsStaff(req.actor) /\ UserProfile[cons[req.cid].user_profile] # req.actor
              THEN "Forbidden"
              ELSE "ok"

----------------------------------------------------------------------------
(* Views: one action per request *)

\* Mutant of get_queryset: every consultation is in the queryset.
get_queryset_all(cons, actor) == DOMAIN cons

\* get_queryset() of the list and detail views: the consultations of the
\* actor's own profile; get_object_or_404 fails when the actor has no profile.
get_queryset(cons, actor) ==
    {c \in DOMAIN cons : cons[c].user_profile \in ProfileOf(actor)}

\* GET consultations/ : the response holds the rows of get_queryset();
\* get_object_or_404 answers 404 when the actor has no profile.
List(req) ==
    /\ req.op = "list"
    /\ last' = IF ProfileOf(req.actor) = {}
               THEN Response(req, NoStatus, "NotFound")
               ELSE [Response(req, NoStatus, "ok") EXCEPT
                        !.rows = get_queryset(consultations, req.actor)]
    /\ UNCHANGED <<consultations, reviews, nextId, inflight>>

\* GET consultations/<pk>/ : the response holds the row found in
\* get_queryset().
Retrieve(req) ==
    /\ req.op = "retrieve"
    /\ last' = IF req.cid \in get_queryset(consultations, req.actor)
               THEN [Response(req, consultations[req.cid].status, "ok") EXCEPT
                        !.rows = {req.cid}]
               ELSE Response(req, NoStatus, "NotFound")
    /\ UNCHANGED <<consultations, reviews, nextId, inflight>>

\* POST consultations/ : validate() then create().
Create(req) ==
    /\ req.op = "create"
    /\ nextId <= MaxConsultations
    /\ UNCHANGED inflight
    /\ LET valid == ValidateCreate(consultations, req)
           result == IF valid = "ok" THEN CreateProfileCheck(req) ELSE valid IN
       /\ last' = Response([req EXCEPT !.cid = IF result = "ok" THEN nextId ELSE 0],
                         NoStatus, result)
       /\ IF result = "ok"
          THEN /\ consultations' =
                    [c \in DOMAIN consultations \cup {nextId} |->
                        IF c = nextId THEN NewConsultation(req) ELSE consultations[c]]
               /\ reviews' = [c \in DOMAIN reviews \cup {nextId} |->
                                 IF c = nextId THEN 0 ELSE reviews[c]]
               /\ nextId' = nextId + 1
          ELSE UNCHANGED <<consultations, reviews, nextId>>

\* Mutant of ApplyUpdate: the fields other than status are written even when
\* validate() rejects the request.
ApplyUpdate_partial(req) ==
    LET result == ValidateUpdate(req, consultations[req.cid]) IN
    /\ last' = Response(req, consultations[req.cid].status, result)
    /\ consultations' = [consultations EXCEPT
           ![req.cid] = UpdatedConsultation(consultations[req.cid],
                            IF result = "ok" THEN req ELSE [req EXCEPT !.status = NoStatus])]
    /\ UNCHANGED <<reviews, nextId>>

\* is_valid() on an existing instance followed by update() and save().
ApplyUpdate(req) ==
    LET result == ValidateUpdate(req, consultations[req.cid]) IN
    /\ last' = Response(req, consultations[req.cid].status, result)
    /\ IF result = "ok"
       THEN consultations' = [consultations EXCEPT
                ![req.cid] = UpdatedConsultation(consultations[req.cid], req)]
       ELSE UNCHANGED consultations
    /\ UNCHANGED <<reviews, nextId>>

\* PATCH consultations/<pk>/ : the object is looked up in get_queryset().
DetailUpdate(req) ==
    /\ req.op = "update"
    /\ UNCHANGED inflight
    /\ IF req.cid \in get_queryset(consultations, req.actor)
       THEN ApplyUpdate(req)
       ELSE /\ last' = Response(req, NoStatus, "NotFound")
            /\ UNCHANGED <<consultations, reviews, nextId>>

\* DELETE consultations/<pk>/ : destroy() of the object found in
\* get_queryset(); the review goes with its consultation.
DetailDelete(req) ==
    /\ req.op = "delete"
    /\ UNCHANGED inflight
    /\ IF req.cid \in get_queryset(consultations, req.actor)
       THEN /\ last' = Response(req, consultations[req.cid].status, "ok")
            /\ consultations' = [c \in DOMAIN consultations \ {req.cid} |-> consultations[c]]
            /\ reviews' = [c \in DOMAIN reviews \ {req.cid} |-> reviews[c]]
            /\ UNCHANGED nextId
       ELSE /\ last' = Response(req, NoStatus, "NotFound")
            /\ UNCHANGED <<consultations, reviews, nextId>>

\* consultations/<pk>/status/ : the consultation is looked up by primary key
\* and the payload {status} goes through the serializer.
StatusUpdate(req) ==
    /\ req.op = "status"
    /\ UNCHANGED inflight
    /\ IF req.cid \in DOMAIN consultations
       THEN ApplyUpdate(req)
       ELSE /\ last' = Response(req, NoStatus, "NotFound")
            /\ UNCHANGED <<consultations, reviews, nextId>>

\* consultations/<pk>/review/ : the consultation is looked up by primary key,
\* DoctorReviewSerializer.validate() runs, then the review row is inserted.
ReviewCreate(req) ==
    /\ req.op = "review"
    /\ UNCHANGED inflight
    /\ IF req.cid \in DOMAIN consultations
       THEN LET result == ValidateReview(consultations, reviews, req) IN
            /\ last' = Response(req, consultations[req.cid].status, result)
            /\ IF result = "ok"
               THEN reviews' = [reviews EXCEPT ![req.cid] = @ + 1]
               ELSE UNCHANGED reviews
            /\ UNCHANGED <<consultations, nextId>>
       ELSE /\ last' = Response(req, NoStatus, "NotFound")
            /\ UNCHANGED <<consultations, reviews, nextId>>

----------------------------------------------------------------------------
(* Requests *)

\* Primary keys a request may name: every row ever inserted.
ConsultationIds == 1..MaxConsultations

\* scheduled_at values of create requests, against the windows of doctor 1
\* (date 1, [1,2)): the start, the end, before the start.
CreateTimes == {NoTime, DateTime(1, 1), DateTime(1, 2), DateTime(1, 0)}

CreateRequests ==
    { Request("create", a, 0, d, p, t, s, NoNotes) :
        a \in Users,
        d \in DOMAIN ChinaDoctor \cup {MissingDoctorId},
        p \in {NoId} \cup DOMAIN UserProfile \cup {MissingProfileId},
        t \in CreateTimes,
        s \in {NoStatus, "confirmed"} }

\* What a PATCH carries besides an optional status: nothing, or a new
\* scheduled_at.
UpdateExtras ==
    { [doctor_id |-> NoId, user_profile_id |-> NoId, scheduled_at |-> NoTime, notes |-> NoNotes],
      [doctor_id |-> NoId, user_profile_id |-> NoId, scheduled_at |-> DateTime(1, 1), notes |-> NoNotes] }

UpdateRequests ==
    { Request("update", a, c, x.doctor_id, x.user_profile_id, x.scheduled_at, s, x.notes) :
        a \in Users, c \in ConsultationIds, x \in UpdateExtras,
        s \in {NoStatus} \cup STATUS_CHOICES }

StatusRequests ==
    { Request("status", a, c, NoId, NoId, NoTime, s, NoNotes) :
        a \in Users, c \in ConsultationIds, s \in STATUS_CHOICES }

DeleteRequests ==
    { Request("delete", a, c, NoId, NoId, NoTime, NoStatus, NoNotes) :
        a \in Users, c \in ConsultationIds }

ReviewRequests ==
    { Request("review", a, c, NoId, NoId, NoTime, NoStatus, NoNotes) :
        a \in Users, c \in ConsultationIds }

Next ==
    \/ \E req \in CreateRequests : Create(req)
    \/ \E req \in UpdateRequests : DetailUpdate(req)
    \/ \E req \in StatusRequests : StatusUpdate(req)
    \/ \E req \in DeleteRequests : DetailDelete(req)
    \/ \E req \in ReviewRequests : ReviewCreate(req)

Spec == Init /\ [][Next]_vars

----------------------------------------------------------------------------
(* Field edits: creates and PATCHes that carry notes or a scheduled_at *)

\* What a PATCH of this specification carries besides an optional status:
\* nothing, notes, or a scheduled_at at the end of the window of date 1,
\* which no doctor's availability holds.
EditExtras ==
    { [scheduled_at |-> NoTime, notes |-> NoNotes],
      [scheduled_at |-> NoTime, notes |-> "note"],
      [scheduled_at |-> DateTime(1, 2), notes |-> NoNotes] }

EditRequests ==
    { Request("update", a, c, NoId, NoId, x.scheduled_at, s, x.notes) :
        a \in Users, c \in ConsultationIds, x \in EditExtras,
        s \in {NoStatus, "completed"} }

NextEdit ==
    \/ \E req \in CreateRequests : Create(req)
    \/ \E req \in EditRequests : DetailUpdate(req)

SpecEdit == Init /\ [][NextEdit]_vars

----------------------------------------------------------------------------
(* Ownership: reads, and PATCHes that carry doctor_id or user_profile_id *)

\* Bookings of doctor 1 without a time, for the actor's own profile or for
\* alice's.
OwnerCreateRequests ==
    { Request("create", a, 0, 1, p, NoTime, NoStatus, NoNotes) :
        a \in Users, p \in {NoId, 1} }

\* What a PATCH of this specification carries: nothing, notes, another
\* doctor, or the profile of alice or of root.
OwnerExtras ==
    { [doctor_id |-> NoId, user_profile_id |-> NoId, notes |-> NoNotes],
      [doctor_id |-> NoId, user_profile_id |-> NoId, notes |-> "note"],
      [doctor_id |-> 2, user_profile_id |-> NoId, notes |-> NoNotes],
      [doctor_id |-> NoId, user_profile_id |-> 1, notes |-> NoNotes],
      [doctor_id |-> NoId, user_profile_id |-> 2, notes |-> NoNotes] }

OwnerUpdateRequests ==
    { Request("update", a, c, x.doctor_id, x.user_profile_id, NoTime, NoStatus, x.notes) :
        a \in Users, c \in ConsultationIds, x \in OwnerExtras }

ListRequests ==
    { Request("list", a, 0, NoId, NoId, NoTime, NoStatus, NoNotes) : a \in Users }

RetrieveRequests ==
    { Request("retrieve", a, c, NoId, NoId, NoTime, NoStatus, NoNotes) :
        a \in Users, c \in ConsultationIds }

NextOwner ==
    \/ \E req \in OwnerCreateRequests : Create(req)
    \/ \E req \in ListRequests : List(req)
    \/ \E req \in RetrieveRequests : Retrieve(req)
    \/ \E req \in OwnerUpdateRequests : DetailUpdate(req)
    \/ \E req \in DeleteRequests : DetailDelete(req)

SpecOwner == Init /\ [][NextOwner]_vars

----------------------------------------------------------------------------
(* Concurrent requests: validation and write of a request are two steps *)

\* The worker h has validated req; the other worker, if it is between its
\* validation and its write, has raced with it.
Validated(h, req) ==
    [k \in Handlers |->
        IF k = h
        THEN [pc |-> "checked", req |-> req,
              raced |-> inflight[Other(h)].pc = "checked", cid |-> 0]
        ELSE IF inflight[k].pc = "checked"
             THEN [inflight[k] EXCEPT !.raced = TRUE]
             ELSE inflight[k]]

\* Creates that are validated and not yet written.
PendingCreates ==
    {k \in Handlers : inflight[k].pc = "checked" /\ inflight[k].req.op = "create"}

\* POST consultations/ , first half: is_valid() runs validate() against the
\* rows the store holds now.
CreateCheck(h, req) ==
    /\ req.op = "create"
    /\ inflight[h].pc # "checked"
    /\ nextId + Cardinality(PendingCreates) <= MaxConsultations
    /\ LET valid == ValidateCreate(consultations, req) IN
       IF valid = "ok"
       THEN /\ inflight' = Validated(h, req)
            /\ UNCHANGED last
       ELSE /\ inflight' = [inflight EXCEPT ![h] = IdleHandler]
            /\ last' = Response(req, NoStatus, valid)
    /\ UNCHANGED <<consultations, reviews, nextId>>

\* POST consultations/ , second half: create() inserts the row; the table
\* has no constraint that could refuse it.
CreateWrite(h) ==
    /\ inflight[h].pc = "checked"
    /\ inflight[h].req.op = "create"
    /\ LET req == inflight[h].req
           result == CreateProfileCheck(req) IN
       /\ last' = Response([req EXCEPT !.cid = IF result = "ok" THEN nextId ELSE 0],
                         NoStatus, result)
       /\ IF result = "ok"
          THEN /\ consultations' =
                    [c \in DOMAIN consultations \cup {nextId} |->
                        IF c = nextId THEN NewConsultation(req) ELSE consultations[c]]
               /\ reviews' = [c \in DOMAIN reviews \cup {nextId} |->
                                 IF c = nextId THEN 0 ELSE reviews[c]]
               /\ nextId' = nextId + 1
               /\ inflight' = [inflight EXCEPT ![h].pc = "done", ![h].cid = nextId]
          ELSE /\ inflight' = [inflight EXCEPT ![h] = IdleHandler]
               /\ UNCHANGED <<consultations, reviews, nextId>>

\* consultations/<pk>/review/ , first half: the lookup by primary key and
\* DoctorReviewSerializer.validate().
ReviewCheck(h, req) ==
    /\ req.op = "review"
    /\ inflight[h].pc # "checked"
    /\ IF req.cid \in DOMAIN consultations
       THEN LET result == ValidateReview(consultations, reviews, req) IN
            IF result = "ok"
            THEN /\ inflight' = Validated(h, req)
                 /\ UNCHANGED last
            ELSE /\ inflight' = [inflight EXCEPT ![h] = IdleHandler]
                 /\ last' = Response(req, consultations[req.cid].status, result)
       ELSE /\ inflight' = [inflight EXCEPT ![h] = IdleHandler]
            /\ last' = Response(req, NoStatus, "NotFound")
    /\ UNCHANGED <<consultations, reviews, nextId>>

\* consultations/<pk>/review/ , second half: the insert of the review row.
\* The review is one-to-one with its consultation, so the store refuses a
\* second row for the same consultation.
ReviewWrite(h) ==
    /\ inflight[h].pc = "checked"
    /\ inflight[h].req.op = "review"
    /\ LET req == inflight[h].req
           result == IF reviews[req.cid] > 0 THEN "IntegrityError" ELSE "ok" IN
       /\ last' = Response(req, consultations[req.cid].status, result)
       /\ reviews' = IF result = "ok"
                     THEN [reviews EXCEPT ![req.cid] = @ + 1]
                     ELSE reviews
       /\ inflight' = [inflight EXCEPT ![h].pc = "done", ![h].cid = req.cid]
    /\ UNCHANGED <<consultations, nextId>>

\* Bookings of the start of doctor 1's window, with and without a status.
RaceCreateRequests ==
    { Request("create", a, 0, 1, NoId, DateTime(1, 1), s, NoNotes) :
        a \in {"alice", "root"}, s \in {NoStatus, "confirmed"} }

RaceReviewRequests ==
    { Request("review", a, c, NoId, NoId, NoTime, NoStatus, NoNotes) :
        a \in {"alice", "root"}, c \in ConsultationIds }

\* The administrator moves their own consultations along the workflow.
RaceStatusRequests ==
    { Request("update", "root", c, NoId, NoId, NoTime, s, NoNotes) :
        c \in ConsultationIds, s \in {"confirmed", "completed"} }

NextRace ==
    \/ \E h \in Handlers : \E req \in RaceCreateRequests : CreateCheck(h, req)
    \/ \E h \in Handlers : CreateWrite(h)
    \/ \E h \in Handlers : \E req \in RaceReviewRequests : ReviewCheck(h, req)
    \/ \E h \in Handlers : ReviewWrite(h)
    \/ \E req \in RaceStatusRequests : DetailUpdate(req)

SpecRace == Init /\ [][NextRace]_vars

----------------------------------------------------------------------------
(* Typing *)

TypeOK ==
    /\ nextId \in 1..(MaxConsultations + 1)
    /\ DOMAIN consultations \subseteq 1..(nextId - 1)
    /\ DOMAIN reviews = DOMAIN consultations
    /\ \A h \in Handlers :
          /\ inflight[h].pc \in {"idle", "checked", "done"}
          /\ inflight[h].pc = "idle" => inflight[h] = IdleHandler
    /\ \A c \in DOMAIN consultations :
          /\ consultations[c].status \in STATUS_CHOICES
          /\ consultations[c].user_profile \in DOMAIN UserProfile
          /\ consultations[c].doctor \in DOMAIN ChinaDoctor

----------------------------------------------------------------------------
(* Vocabulary of the properties *)

\* The request handled last named a consultation and reached its serializer.
Resolved == last.before # NoStatus

\* The request handled last asked for a status through either update endpoint.
StatusRequested ==
    /\ last.op \in {"status", "update"}
    /\ last.status # NoStatus
    /\ Resolved

\* The transition table of the status workflow, as pairs.
TransitionTable ==
    { <<"pending", "confirmed">>, <<"pending", "cancelled">>,
      <<"confirmed", "completed">>, <<"confirmed", "cancelled">> }

\* Two rows book the same doctor at the same non-null time.
SameSlot(a, b) ==
    /\ a.doctor = b.doctor
    /\ a.scheduled_at = b.scheduled_at
    /\ a.scheduled_at # NoTime

----------------------------------------------------------------------------
(* C1, C2: double booking *)

\* C1: in every reachable state no two distinct confirmed consultations have
\* the same doctor and the same non-null scheduled_at.
C1_NoDoubleBooking ==
    \A a, b \in DOMAIN consultations :
        (/\ a # b
         /\ consultations[a].status = "confirmed"
         /\ consultations[b].status = "confirmed")
        => ~SameSlot(consultations[a], consultations[b])

\* C2: when another consultation of the same doctor at the same time is
\* confirmed, an administrative pending -> confirmed request fails with
\* SlotTaken and the consultation stays pending.
C2_SecondConfirmationSlotTaken ==
    (/\ StatusRequested
     /\ IsStaff(last.actor)
     /\ last.before = "pending"
     /\ last.status = "confirmed"
     /\ last.scheduled_at = NoTime
     /\ \E o \in DOMAIN consultations \ {last.cid} :
            /\ consultations[o].status = "confirmed"
            /\ SameSlot(consultations[o], consultations[last.cid]))
    => (/\ last.result = "SlotTaken"
        /\ consultations[last.cid].status = "pending")

----------------------------------------------------------------------------
(* C3, C4: create *)

\* The consultation rows as they were when the create request handled last
\* arrived.
RowsBeforeCreate ==
    DOMAIN consultations \ (IF last.result = "ok" THEN {last.cid} ELSE {})

\* Doctor d declares a half-open window [start, end) on the date of t that
\* holds the time of day of t.
InsideWindow(d, t) ==
    \E w \in DoctorAvailability :
        /\ w.doctor = d
        /\ w.date = t.date
        /\ t.time \in w.start_time .. (w.end_time - 1)

\* The create request handled last names an available doctor and a profile
\* it may book for, and supplies a time.
ReachedScheduling ==
    /\ last.op = "create"
    /\ last.doctor_id \in DOMAIN ChinaDoctor
    /\ ChinaDoctor[last.doctor_id]
    /\ IF last.user_profile_id = NoId
       THEN \E p \in DOMAIN UserProfile : UserProfile[p] = last.actor
       ELSE /\ last.user_profile_id \in DOMAIN UserProfile
            /\ IsStaff(last.actor) \/ UserProfile[last.user_profile_id] = last.actor
    /\ last.scheduled_at # NoTime

\* C3: the scheduling step of create accepts T iff a window of D contains T
\* (start inclusive, end exclusive) and no confirmed consultation of D is at
\* exactly T; rows of D at T in any other status do not matter.
C3_ScheduleAcceptedIff ==
    ReachedScheduling =>
        LET inside == InsideWindow(last.doctor_id, last.scheduled_at)
            taken == \E o \in RowsBeforeCreate :
                        /\ consultations[o].doctor = last.doctor_id
                        /\ consultations[o].scheduled_at = last.scheduled_at
                        /\ consultations[o].status = "confirmed"
        IN  /\ last.result = "ok" <=> (inside /\ ~taken)
            /\ ~inside => last.result = "OutsideAvailability"
            /\ (inside /\ taken) => last.result = "SlotTaken"

\* C3 witness: a create was accepted at a time another, unconfirmed,
\* consultation of the same doctor already has.
C3_Witness ==
    /\ ReachedScheduling
    /\ last.result = "ok"
    /\ \E o \in RowsBeforeCreate :
          /\ consultations[o].doctor = last.doctor_id
          /\ consultations[o].scheduled_at = last.scheduled_at
          /\ consultations[o].status # "confirmed"

\* C4: a consultation persisted by a successful create has status pending
\* right after the request.
C4_CreatedPending ==
    (last.op = "create" /\ last.result = "ok")
    => consultations[last.cid].status = "pending"

----------------------------------------------------------------------------
(* C5 - C8: status transitions *)

\* C5: for an administrative actor a request for a different status outside
\* the transition table fails with IllegalTransition and the status stays.
C5_IllegalTransitionRejected ==
    (/\ StatusRequested
     /\ IsStaff(last.actor)
     /\ last.status # last.before
     /\ <<last.before, last.status>> \notin TransitionTable)
    => (/\ last.result = "IllegalTransition"
        /\ consultations[last.cid].status = last.before)

\* C5 witness: an administrator asked to reopen a completed consultation.
C5_Witness ==
    /\ StatusRequested
    /\ IsStaff(last.actor)
    /\ last.before = "completed"
    /\ last.status = "confirmed"
    /\ last.result = "IllegalTransition"

\* C6: once completed or cancelled, a consultation keeps that status for as
\* long as it exists.
C6_TerminalAbsorbing ==
    [][\A c \in DOMAIN consultations :
          (/\ consultations[c].status \in {"completed", "cancelled"}
           /\ c \in DOMAIN consultations')
          => consultations'[c].status = consultations[c].status]_vars

\* C6 witness: a status request arrived at a cancelled consultation.
C6_Witness ==
    /\ StatusRequested
    /\ last.before = "cancelled"
    /\ last.status \in {"pending", "confirmed", "completed"}
    /\ consultations[last.cid].status = "cancelled"

\* C7: a status request of a non-administrative actor fails with Forbidden
\* and changes no status, whether or not the pair is in the table.
C7_NonAdminForbidden ==
    (StatusRequested /\ ~IsStaff(last.actor))
    => (/\ last.result = "Forbidden"
        /\ consultations[last.cid].status = last.before)

\* C7 witness: a non-administrator asked for a transition outside the table
\* and was told Forbidden.
C7_Witness ==
    /\ StatusRequested
    /\ ~IsStaff(last.actor)
    /\ <<last.before, last.status>> \notin TransitionTable
    /\ last.status # last.before
    /\ last.result = "Forbidden"

\* C8 as stated: a request for the current status succeeds and leaves the
\* status as it was, for every actor.
C8_SameStatusSucceeds ==
    (StatusRequested /\ last.status = last.before)
    => (/\ last.result = "ok"
        /\ consultations[last.cid].status = last.before)

\* C8 amended: a request of an administrative actor for the current status
\* succeeds and leaves the status as it was, for each of the four statuses.
C8_SameStatusSucceedsForAdmin ==
    (StatusRequested /\ IsStaff(last.actor) /\ last.status = last.before)
    => (/\ last.result = "ok"
        /\ consultations[last.cid].status = last.before)

\* C8 witness: an administrator asked a completed consultation to be
\* completed.
C8_Witness ==
    /\ StatusRequested
    /\ IsStaff(last.actor)
    /\ last.before = "completed"
    /\ last.status = "completed"
    /\ last.result = "ok"

----------------------------------------------------------------------------
(* C9, C10: reviews *)

\* C9: no consultation ever has two reviews, and a review request on a
\* consultation that has one fails with AlreadyReviewed and adds none.
C9_SingleReview ==
    [][/\ \A c \in DOMAIN reviews' : reviews'[c] <= 1
       /\ (/\ last'.op = "review"
           /\ last'.cid \in DOMAIN reviews
           /\ reviews[last'.cid] >= 1)
          => (last'.result = "AlreadyReviewed" /\ reviews' = reviews)]_vars

\* C9 witness: a second review was refused and the consultation has one.
C9_Witness ==
    /\ last.op = "review"
    /\ last.result = "AlreadyReviewed"
    /\ reviews[last.cid] = 1

\* C10: a review request on a consultation that is not completed fails with
\* NotCompleted for every actor and adds no review.
C10_NotCompletedFirst ==
    [][(/\ last'.op = "review"
        /\ last'.cid \in DOMAIN consultations
        /\ consultations[last'.cid].status # "completed")
       => (last'.result = "NotCompleted" /\ reviews' = reviews)]_vars

\* C10 witness: an actor who neither owns the consultation nor is an
\* administrator asked to review a confirmed one.
C10_Witness ==
    /\ last.op = "review"
    /\ Resolved
    /\ last.before = "confirmed"
    /\ ~IsStaff(last.actor)
    /\ UserProfile[consultations[last.cid].user_profile] # last.actor
    /\ last.result = "NotCompleted"

\* C11: a review is added only for an administrator or the account owning
\* the consultation's profile; any other actor's request on a completed,
\* unreviewed consultation fails with Forbidden and adds none.
C11_ReviewerOwnsOrAdmin ==
    [][/\ (\E c \in DOMAIN reviews \cap DOMAIN reviews' : reviews'[c] > reviews[c])
          => (/\ last'.op = "review"
              /\ \/ IsStaff(last'.actor)
                 \/ UserProfile[consultations[last'.cid].user_profile] = last'.actor)
       /\ (/\ last'.op = "review"
           /\ last'.cid \in DOMAIN consultations
           /\ consultations[last'.cid].status = "completed"
           /\ reviews[last'.cid] = 0
           /\ ~IsStaff(last'.actor)
           /\ UserProfile[consultations[last'.cid].user_profile] # last'.actor)
          => (last'.result = "Forbidden" /\ reviews' = reviews)]_vars

\* C11 witness: an actor who is neither administrator nor owner asked to
\* review a completed consultation without a review and was refused.
C11_Witness ==
    /\ last.op = "review"
    /\ last.before = "completed"
    /\ ~IsStaff(last.actor)
    /\ UserProfile[consultations[last.cid].user_profile] # last.actor
    /\ reviews[last.cid] = 0
    /\ last.result = "Forbidden"

----------------------------------------------------------------------------
(* C12: ownership resolution on create *)

\* The create request handled last names a doctor that exists and is
\* available, so that the profile step decides next.
DoctorStepPassed ==
    /\ last.op = "create"
    /\ last.doctor_id \in DOMAIN ChinaDoctor
    /\ ChinaDoctor[last.doctor_id]

\* The errors of the profile step.
ProfileErrors == {"ProfileNotFound", "OwnershipMismatch", "NoProfileForActor"}

\* The account has a profile.
HasProfile(u) == \E p \in DOMAIN UserProfile : UserProfile[p] = u

----------------------------------------------------------------------------
(* C14, C16, C19, C20 *)

\* C14: a create, update, status or review request that is rejected leaves
\* the consultations, all their fields, and the reviews as they were.
C14_NoPartialCommit ==
    [][(/\ last'.op \in {"create", "update", "status", "review"}
        /\ last'.result # "ok")
       => (/\ consultations' = consultations
           /\ reviews' = reviews
           /\ nextId' = nextId)]_vars

\* C14 witness: an administrator's PATCH with a new scheduled_at and a
\* status outside the table was rejected and the scheduled_at was not written.
C14_Witness ==
    /\ last.op = "update"
    /\ last.result = "IllegalTransition"
    /\ last.scheduled_at # NoTime
    /\ consultations[last.cid].scheduled_at # last.scheduled_at

\* C16: a consultation that exists is still there after every request of a
\* non-administrative actor.
C16_OnlyAdminDeletes ==
    [][(\E c \in DOMAIN consultations : c \notin DOMAIN consultations')
       => IsStaff(last'.actor)]_vars

\* C19: a consultation starts as pending and its status only moves along the
\* transition table, so that whatever is completed was confirmed before,
\* whatever left pending was pending before, and nothing returns to pending.
C19_HistoryFollowsGraph ==
    [][/\ \A c \in DOMAIN consultations' \ DOMAIN consultations :
             consultations'[c].status = "pending"
       /\ \A c \in DOMAIN consultations' \cap DOMAIN consultations :
             \/ consultations'[c].status = consultations[c].status
             \/ <<consultations[c].status, consultations'[c].status>> \in TransitionTable]_vars

\* C20: every consultation that has a review is completed.
C20_ReviewedIsCompleted ==
    \A c \in DOMAIN consultations :
        reviews[c] > 0 => consultations[c].status = "completed"

\* C20 witness: an administrator asked a reviewed consultation to leave
\* completed and it stayed completed.
C20_Witness ==
    /\ StatusRequested
    /\ IsStaff(last.actor)
    /\ reviews[last.cid] > 0
    /\ last.status # "completed"
    /\ last.result = "IllegalTransition"
    /\ consultations[last.cid].status = "completed"

----------------------------------------------------------------------------
(* C13, C15, C18: checked under SpecEdit *)

\* The profile step of the create request handled last has to fail.
ProfileStepFails ==
    IF last.user_profile_id = NoId
    THEN ~HasProfile(last.actor)
    ELSE \/ last.user_profile_id \notin DOMAIN UserProfile
         \/ ~IsStaff(last.actor) /\ UserProfile[last.user_profile_id] # last.actor

\* C13: create reports the first failing check in the order doctor, profile,
\* schedule, and OutsideAvailability before SlotTaken.
C13_FirstFailingCheck ==
    last.op = "create" =>
        /\ last.doctor_id \notin DOMAIN ChinaDoctor => last.result = "DoctorNotFound"
        /\ (last.doctor_id \in DOMAIN ChinaDoctor /\ ~ChinaDoctor[last.doctor_id])
           => last.result = "DoctorUnavailable"
        /\ (DoctorStepPassed /\ ProfileStepFails) => last.result \in ProfileErrors
        /\ (ReachedScheduling /\ ~InsideWindow(last.doctor_id, last.scheduled_at))
           => last.result = "OutsideAvailability"

\* C13 witness: a create for a time outside the doctor's windows, at which
\* the doctor has a confirmed consultation, was told OutsideAvailability.
C13_Witness ==
    /\ ReachedScheduling
    /\ ~InsideWindow(last.doctor_id, last.scheduled_at)
    /\ \E o \in DOMAIN consultations :
          /\ consultations[o].doctor = last.doctor_id
          /\ consultations[o].scheduled_at = last.scheduled_at
          /\ consultations[o].status = "confirmed"
    /\ last.result = "OutsideAvailability"

\* C15 as stated: the notes of an update that also carries a status are
\* written whatever becomes of the status.
C15_FieldsAppliedRegardless ==
    (/\ last.op = "update"
     /\ Resolved
     /\ last.status # NoStatus
     /\ last.notes # NoNotes)
    => consultations[last.cid].notes = last.notes

\* C15 amended: the other fields of an update that also carries a status
\* are written when the request is accepted, whatever the accepted status,
\* and nothing is written when it is rejected.
C15_FieldsAppliedWhenAccepted ==
    [][(/\ last'.op = "update"
        /\ last'.cid \in get_queryset(consultations, last'.actor)
        /\ last'.status # NoStatus)
       => IF last'.result = "ok"
          THEN /\ last'.notes # NoNotes
                  => consultations'[last'.cid].notes = last'.notes
               /\ last'.scheduled_at # NoTime
                  => consultations'[last'.cid].scheduled_at = last'.scheduled_at
          ELSE /\ last'.result \in {"Forbidden", "IllegalTransition"}
               /\ consultations' = consultations]_vars

\* C15 witness: an update with a status and notes was accepted and the notes
\* were written.
C15_Witness ==
    /\ last.op = "update"
    /\ last.status # NoStatus
    /\ last.notes # NoNotes
    /\ last.result = "ok"
    /\ consultations[last.cid].notes = last.notes

\* C18: an update that carries a scheduled_at and no status succeeds for
\* every actor that reaches the consultation and writes the time, whatever
\* the doctor's windows and the other consultations are.
C18_EditNotValidated ==
    (/\ last.op = "update"
     /\ Resolved
     /\ last.status = NoStatus
     /\ last.scheduled_at # NoTime)
    => (/\ last.result = "ok"
        /\ consultations[last.cid].scheduled_at = last.scheduled_at)

\* C18 witness: a consultation was moved to a time outside every window of
\* its doctor, at which the doctor has another, confirmed, consultation.
C18_Witness ==
    /\ last.op = "update"
    /\ last.status = NoStatus
    /\ last.scheduled_at # NoTime
    /\ last.result = "ok"
    /\ ~InsideWindow(consultations[last.cid].doctor, last.scheduled_at)
    /\ \E o \in DOMAIN consultations \ {last.cid} :
          /\ consultations[o].status = "confirmed"
          /\ SameSlot(consultations[o], consultations[last.cid])

----------------------------------------------------------------------------
(* C17: checked under SpecRace *)

\* Both workers have written, and their requests were both validated before
\* either was written.
BothRaced == \A h \in Handlers : inflight[h].pc = "done" /\ inflight[h].raced

\* C17: two requests validated before either writes leave (a) at most one
\* review of the consultation both review and (b) at most one confirmed
\* consultation of the (doctor, scheduled_at) both book as confirmed.
C17_RacesSafe ==
    BothRaced =>
        LET r1 == inflight[1].req
            r2 == inflight[2].req IN
        /\ (r1.op = "review" /\ r2.op = "review" /\ r1.cid = r2.cid)
           => reviews[r1.cid] <= 1
        /\ (/\ r1.op = "create" /\ r2.op = "create"
            /\ r1.status = "confirmed" /\ r2.status = "confirmed"
            /\ r1.doctor_id = r2.doctor_id
            /\ r1.scheduled_at = r2.scheduled_at)
           => Cardinality({c \in DOMAIN consultations :
                  /\ consultations[c].status = "confirmed"
                  /\ consultations[c].doctor = r1.doctor_id
                  /\ consultations[c].scheduled_at = r1.scheduled_at}) <= 1

----------------------------------------------------------------------------
(* C21, C22: checked under SpecOwner *)

\* C21: an update leaves the owning profile and the doctor of every
\* consultation as they were.
C21_OwnerAndDoctorFixed ==
    [][last'.op = "update"
       => \A c \in DOMAIN consultations \cap DOMAIN consultations' :
             /\ consultations'[c].user_profile = consultations[c].user_profile
             /\ consultations'[c].doctor = consultations[c].doctor]_vars

\* The consultations whose owning profile belongs to the account u.
OwnedBy(cons, u) == {c \in DOMAIN cons : UserProfile[cons[c].user_profile] = u}

\* C22: a list, retrieve, update or delete request returns and changes only
\* consultations owned by a profile of its actor; an actor without a
\* profile gets NotFound, no row, and changes nothing.
C22_OwnerConfined ==
    [][last'.op \in {"list", "retrieve", "update", "delete"}
       => /\ last'.rows \subseteq OwnedBy(consultations, last'.actor)
          /\ last'.before # NoStatus
             => last'.cid \in OwnedBy(consultations, last'.actor)
          /\ \A c \in DOMAIN consultations \ OwnedBy(consultations, last'.actor) :
                /\ c \in DOMAIN consultations'
                /\ consultations'[c] = consultations[c]
                /\ reviews'[c] = reviews[c]
          /\ ~HasProfile(last'.actor)
             => /\ last'.result = "NotFound"
                /\ last'.rows = {}
                /\ consultations' = consultations]_vars

\* C22 witness: a list answered with the actor's rows while the store holds
\* a consultation of another actor's profile.
C22_Witness ==
    /\ last.op = "list"
    /\ last.result = "ok"
    /\ last.rows # {}
    /\ DOMAIN consultations \ OwnedBy(consultations, last.actor) # {}

====
